---- MODULE Spec2Model ----
(***************************************************************************)
(* PxG (pxg-go): a shared canvas served over HTTP.  The process keeps the  *)
(* grid in the global byte slice `board`, the placement history in the     *)
(* global slice `placementData`, serves GET /board, GET /pixel and         *)
(* POST /pixel from concurrently running handlers that take no lock, and   *)
(* writes both globals to storage/board.dat and storage/data.json on every *)
(* tick of a 10 s ticker.                                                  *)
(*                                                                         *)
(* Spec       handlers run one at a time, each as one step.                *)
(* SpecPlace  POST /pixel handlers running at the same time, a step being  *)
(*            one access of the shared globals.                            *)
(* SpecSave   POST /pixel handlers and the save goroutine, interleaved.    *)
(* SpecBoard  POST /pixel handlers and a GET /board, interleaved likewise. *)
(* SpecLife   the process from its start on any content of storage/: the   *)
(*            two loads, handlers one at a time, the save goroutine, and   *)
(*            the process ending and being started again.                  *)
(***************************************************************************)
EXTENDS Integers, Sequences, FiniteSets, TLC

(***************************************************************************)
(* Configuration read by main from the environment.                        *)
(***************************************************************************)
width == 2

height == 1

expectedSize == width * height

defaultColorIndex == 1

PaletteLen == 2

palette == [i \in 1..PaletteLen |-> "FFFFFF"]

(***************************************************************************)
(* Bounds of the model.                                                    *)
(***************************************************************************)
\* placements accepted in one run of the process
MaxPlace == 2

\* time.Now().UnixMilli() answers one of two readings, an earlier and a later
\* one, in any order (the wall clock can step back)
Times == {0, 1}

Xs == -1..width

Ys == -1..height

Colors == {-1, 0, Len(palette) - 1, Len(palette), 256}

\* the bodies BindJSON accepts
ClientPixel == [X : Xs, Y : Ys, Color : Colors]

(***************************************************************************)
(* Pure parts of the handlers.                                             *)
(***************************************************************************)
\* Go's conversion byte(n) of an int
byte(n) == n % 256

\* a response with a JSON body {"message": message}
badRequest(message) ==
    [status |-> 400, message |-> message, pixel |-> <<>>, data |-> <<>>]

\* c.Status(code): a response without a body
Status(code) == [status |-> code, message |-> "", pixel |-> <<>>, data |-> <<>>]

\* c.JSON(200, pixel): a response whose body is one ServerPixel
JSON(code, pixel) == [status |-> code, message |-> "", pixel |-> <<pixel>>, data |-> <<>>]

\* c.Data(200, "application/octet-stream", bytes)
Data(code, bytes) == [status |-> code, message |-> "", pixel |-> <<>>, data |-> bytes]

\* the handler panics on placementData[-1]; nothing of src/ answers the request
Panic ==
    [status |-> 500, message |-> "panic: index out of range [-1]",
     pixel |-> <<>>, data |-> <<>>]

\* POST /pixel, the three range checks in the order of the code; "" when all
\* pass (PlaceErrorXInclusive: x compared with > width; PlaceErrorXFirst: the
\* x check moved before the color check)
PlaceErrorXFirst(clientPlace) ==
    IF clientPlace.X < 0 \/ clientPlace.X >= width THEN "x-coordinate out of range"
    ELSE IF clientPlace.Color < 0 \/ clientPlace.Color > 255 THEN "color out of range"
    ELSE IF clientPlace.Y < 0 \/ clientPlace.Y >= height THEN "y-coordinate out of range"
    ELSE ""

PlaceErrorXInclusive(clientPlace) ==
    IF clientPlace.Color < 0 \/ clientPlace.Color > 255 THEN "color out of range"
    ELSE IF clientPlace.X < 0 \/ clientPlace.X > width THEN "x-coordinate out of range"
    ELSE IF clientPlace.Y < 0 \/ clientPlace.Y >= height THEN "y-coordinate out of range"
    ELSE ""

PlaceError(clientPlace) ==
    IF clientPlace.Color < 0 \/ clientPlace.Color > 255 THEN "color out of range"
    ELSE IF clientPlace.X < 0 \/ clientPlace.X >= width THEN "x-coordinate out of range"
    ELSE IF clientPlace.Y < 0 \/ clientPlace.Y >= height THEN "y-coordinate out of range"
    ELSE ""

\* the index expression clientPlace.Y*width+clientPlace.X (CellIndexTransposed:
\* rows and columns exchanged)
CellIndexTransposed(clientPlace) == clientPlace.X * width + clientPlace.Y

CellIndex(clientPlace) == clientPlace.Y * width + clientPlace.X

\* board[clientPlace.Y*width+clientPlace.X] = byte(clientPlace.Color); an index
\* outside the slice panics before anything is stored
WriteBoard(b, clientPlace) ==
    IF CellIndex(clientPlace) \in DOMAIN b
    THEN [b EXCEPT ![CellIndex(clientPlace)] = byte(clientPlace.Color)]
    ELSE b

\* the ServerPixel literal of the append
ServerPixel(clientPlace, now) ==
    [X |-> clientPlace.X, Y |-> clientPlace.Y, Color |-> clientPlace.Color, Time |-> now]

\* append(slice, ServerPixel{...}) on the slice value the handler read
AppendPlacement(slice, clientPlace, now) ==
    Append(slice, ServerPixel(clientPlace, now))

\* slices.IndexFunc(placementData, pixel.X == x && pixel.Y == y): the first
\* index (from 0) whose entry matches, -1 when none does
RECURSIVE IndexFrom(_, _, _, _)
IndexFrom(s, x, y, i) ==
    IF i >= Len(s) THEN -1
    ELSE IF s[i + 1].X = x /\ s[i + 1].Y = y THEN i
    ELSE IndexFrom(s, x, y, i + 1)

IndexFunc(s, x, y) == IndexFrom(s, x, y, 0)

\* encoding/json of one ServerPixel, by its json tags
MarshalPixel(p) == [x |-> p.X, y |-> p.Y, color |-> p.Color, time |-> p.Time]

\* json.Marshal(placementData): an array of objects in slice order
Marshal(s) == [i \in 1..Len(s) |-> MarshalPixel(s[i])]

(***************************************************************************)
(* Files of storage/.                                                      *)
(***************************************************************************)
\* storage/board.dat: raw bytes
NoFile == [exists |-> FALSE, bytes |-> <<>>]

BoardFile(bytes) == [exists |-> TRUE, bytes |-> bytes]

\* storage/data.json: a JSON array of objects when valid; a write that failed
\* half way leaves text that is no JSON value
NoData == [exists |-> FALSE, valid |-> FALSE, items |-> <<>>]

DataFile(items) == [exists |-> TRUE, valid |-> TRUE, items |-> items]

BrokenData == [exists |-> TRUE, valid |-> FALSE, items |-> <<>>]

\* the bytes os.WriteFile(path, board, 0644) leaves in the file
BoardBytes(b) == [i \in 1..Cardinality(DOMAIN b) |-> b[i - 1]]

\* what a failed os.WriteFile can leave: the file as it was (the open failed),
\* or a proper prefix of the bytes (opened with O_TRUNC, the write failed)
FailedBoardWrites(old, bytes) ==
    {old} \cup {BoardFile(SubSeq(bytes, 1, k)) : k \in 0..(Len(bytes) - 1)}

FailedDataWrites(old) == {old, BrokenData}

\* loadCanvas when os.Stat answers ErrNotExist: make, then fill with the default
\* (DefaultBoardUnfilled: the fill left out)
DefaultBoardUnfilled(size, defaultColor) == [i \in 0..(size - 1) |-> 0]

DefaultBoard(size, defaultColor) == [i \in 0..(size - 1) |-> byte(defaultColor)]

\* var board []byte before loadCanvas has run: nil
NilBoard == [i \in {} |-> 0]

\* make([]byte, expectedSize): zeroes
MakeBoard(size) == [i \in 0..(size - 1) |-> 0]

\* file.Read(b): the first len(b) bytes of the file go into b, the cells past
\* the end of the file stay as they were (ReadIntoShort: the last byte is not
\* read)
ReadIntoShort(b, bytes) ==
    [i \in DOMAIN b |-> IF i < Len(bytes) - 1 THEN bytes[i + 1] ELSE b[i]]

ReadInto(b, bytes) ==
    [i \in DOMAIN b |-> IF i < Len(bytes) THEN bytes[i + 1] ELSE b[i]]

\* the errors that os.Stat, os.Open and file.Read can answer for a file that
\* is there; "" when none does (for a file that is not there os.Stat answers
\* ErrNotExist)
IoErrs == {"", "stat", "open", "read"}

\* loadCanvas(path, expectedSize, defaultColor): the board it leaves, and
\* whether it ended in log.Fatalln or log.Fatalf (LoadCanvasShortOnly: only a
\* file shorter than expectedSize is refused; LoadCanvasWholeFile: the board
\* is the whole file, whatever its size)
LoadCanvasWholeFile(file, size, defaultColor, ioErr) ==
    IF ~file.exists
    THEN [fatal |-> FALSE, board |-> DefaultBoard(size, defaultColor)]
    ELSE IF ioErr # "" THEN [fatal |-> TRUE, board |-> MakeBoard(size)]
    ELSE [fatal |-> FALSE,
          board |-> ReadInto(MakeBoard(Len(file.bytes)), file.bytes)]

LoadCanvasShortOnly(file, size, defaultColor, ioErr) ==
    IF ~file.exists
    THEN [fatal |-> FALSE, board |-> DefaultBoard(size, defaultColor)]
    ELSE IF ioErr = "stat" THEN [fatal |-> TRUE, board |-> MakeBoard(size)]
    ELSE IF Len(file.bytes) < size THEN [fatal |-> TRUE, board |-> MakeBoard(size)]
    ELSE IF ioErr \in {"open", "read"} THEN [fatal |-> TRUE, board |-> MakeBoard(size)]
    ELSE [fatal |-> FALSE, board |-> ReadInto(MakeBoard(size), file.bytes)]

LoadCanvas(file, size, defaultColor, ioErr) ==
    IF ~file.exists
    THEN [fatal |-> FALSE, board |-> DefaultBoard(size, defaultColor)]
    ELSE IF ioErr = "stat" THEN [fatal |-> TRUE, board |-> MakeBoard(size)]
    ELSE IF Len(file.bytes) # size THEN [fatal |-> TRUE, board |-> MakeBoard(size)]
    ELSE IF ioErr \in {"open", "read"} THEN [fatal |-> TRUE, board |-> MakeBoard(size)]
    ELSE [fatal |-> FALSE, board |-> ReadInto(MakeBoard(size), file.bytes)]

\* json.Unmarshal of one object into a ServerPixel, by its json tags
\* (UnmarshalPixelNoTime: the key "time" matches no tag, Time stays zero)
UnmarshalPixelNoTime(o) == [X |-> o.x, Y |-> o.y, Color |-> o.color, Time |-> 0]

UnmarshalPixel(o) == [X |-> o.x, Y |-> o.y, Color |-> o.color, Time |-> o.time]

\* json.Unmarshal(fileBytes, &placementData) of an array of objects
Unmarshal(items) == [i \in 1..Len(items) |-> UnmarshalPixel(items[i])]

\* loadPlacementData(path): the slice it leaves in placementData, and whether
\* it ended in log.Fatalln
LoadPlacementData(file, ioErr) ==
    IF ~file.exists THEN [fatal |-> FALSE, placementData |-> <<>>]
    ELSE IF ioErr = "stat" THEN [fatal |-> TRUE, placementData |-> <<>>]
    ELSE IF ioErr \in {"open", "read"} THEN [fatal |-> TRUE, placementData |-> <<>>]
    ELSE IF ~file.valid THEN [fatal |-> TRUE, placementData |-> <<>>]
    ELSE [fatal |-> FALSE, placementData |-> Unmarshal(file.items)]

(***************************************************************************)
(* State.                                                                  *)
(***************************************************************************)
\* goroutines serving POST /pixel at the same time
NumHandlers == 2

Handlers == 1..NumHandlers

\* a request: the route, the values bound from body or query, and the value
\* time.Now().UnixMilli() answered if the handler got to read it (0 if not);
\* for a step of main, its name and the error the file system answered
Call(route, x, y, color, now) ==
    [route |-> route, X |-> x, Y |-> y, Color |-> color, now |-> now, ioErr |-> ""]

NoCall == Call("", 0, 0, 0, 0)

\* the locals of a POST /pixel handler that is not running
NoFrame == [clientPlace |-> [X |-> 0, Y |-> 0, Color |-> 0], now |-> 0, slice |-> <<>>]

VARIABLES
    board,          \* var board []byte, indexed from 0
    placementData,  \* var placementData []ServerPixel
    fileBoard,      \* storage/board.dat
    fileData,       \* storage/data.json
    saved,          \* what the saves that succeeded last wrote: the board, the
                    \* log, and the pair of the last flush that wrote both
    proc,           \* where main is: "loadCanvas", "loadPlacementData",
                    \* "running", or "exited" after log.Fatalln
    resp,           \* the response written last by a handler
    call,           \* the request of the handler that ran last as one step
    before,         \* board and placementData when that handler began
    pc,             \* per POST /pixel handler: "idle", "written" (line 130 done),
                    \* "appending" (placementData read by the append, not yet stored)
    frame,          \* per POST /pixel handler: clientPlace, now and the slice read
    returned,       \* the bodies of the POST /pixel calls that answered 200, in order
    flushPc,        \* save goroutine: "wait", "saveCanvas", "savePlacementData"
    flushSeen,      \* the (board, log) file images of every instant since saveCanvas read
    rdPos,          \* GET /board: -1, or the next index of board to copy out
    rdOut,          \* GET /board: the bytes copied out so far
    rdSeen          \* GET /board: the values board had since the call began

globals == <<board, placementData>>

files == <<fileBoard, fileData>>

\* nothing saved yet by this or an earlier process, on storage that had no file
NothingSaved ==
    [board |-> <<>>, placementData |-> <<>>,
     flush |-> <<[board |-> DefaultBoard(expectedSize, defaultColorIndex),
                  placementData |-> <<>>]>>]

lastCall == <<call, before>>

posting == <<pc, frame, returned>>

saving == <<flushPc, flushSeen>>

reading == <<rdPos, rdOut, rdSeen>>

vars == <<board, placementData, fileBoard, fileData, saved, proc, resp, call, before,
          pc, frame, returned, flushPc, flushSeen, rdPos, rdOut, rdSeen>>

\* the state main reaches on a fresh storage directory: loadCanvas and
\* loadPlacementData find no file, the ticker has not fired, no request is in
\* flight
Init ==
    /\ board = DefaultBoard(expectedSize, defaultColorIndex)
    /\ placementData = <<>>
    /\ fileBoard = NoFile
    /\ fileData = NoData
    /\ saved = NothingSaved
    /\ proc = "running"
    /\ resp = Status(0)
    /\ call = NoCall
    /\ before = [board |-> board, placementData |-> placementData]
    /\ pc = [h \in Handlers |-> "idle"]
    /\ frame = [h \in Handlers |-> NoFrame]
    /\ returned = <<>>
    /\ flushPc = "wait"
    /\ flushSeen = {}
    /\ rdPos = -1
    /\ rdOut = <<>>
    /\ rdSeen = {}

(***************************************************************************)
(* Handlers, one step each.                                                *)
(***************************************************************************)
\* POST /pixel with a body BindJSON rejects
PostPixelMalformed ==
    /\ proc = "running"
    /\ resp' = badRequest("malformed body")
    /\ call' = Call("POST /pixel malformed", 0, 0, 0, 0)
    /\ before' = [board |-> board, placementData |-> placementData]
    /\ UNCHANGED <<globals, files, saved, proc, posting, saving, reading>>

\* POST /pixel with body clientPlace; time.Now().UnixMilli(), read past the
\* range checks only, answers now
PostPixel(clientPlace, now) ==
    /\ proc = "running"
    /\ IF PlaceError(clientPlace) # ""
       THEN /\ now = 0
            /\ resp' = badRequest(PlaceError(clientPlace))
            /\ UNCHANGED globals
       ELSE /\ Len(placementData) < MaxPlace
            /\ board' = WriteBoard(board, clientPlace)
            /\ placementData' = AppendPlacement(placementData, clientPlace, now)
            /\ resp' = Status(200)
    /\ call' = Call("POST /pixel", clientPlace.X, clientPlace.Y, clientPlace.Color, now)
    /\ before' = [board |-> board, placementData |-> placementData]
    /\ UNCHANGED <<files, saved, proc, posting, saving, reading>>

\* GET /pixel?x=..&y=..: a miss sets status 404 and goes on to index the slice
\* with -1
GetPixel(x, y) ==
    /\ proc = "running"
    /\ LET pixelIndex == IndexFunc(placementData, x, y)
       IN  resp' = IF pixelIndex = -1
                   THEN Panic
                   ELSE JSON(200, MarshalPixel(placementData[pixelIndex + 1]))
    /\ call' = Call("GET /pixel", x, y, 0, 0)
    /\ before' = [board |-> board, placementData |-> placementData]
    /\ UNCHANGED <<globals, files, saved, proc, posting, saving, reading>>

Next ==
    \/ PostPixelMalformed
    \/ \E clientPlace \in ClientPixel, now \in Times : PostPixel(clientPlace, now)
    \/ \E x \in Xs, y \in Ys : GetPixel(x, y)

Spec == Init /\ [][Next]_vars

(***************************************************************************)
(* The same code with its goroutines interleaved.  No handler and no save  *)
(* takes a lock, so a step is one access of board or placementData.        *)
(***************************************************************************)
InFlight == {h \in Handlers : pc[h] # "idle"}

\* the history kept for a GET /board that is copying
SeenBoards(b) == IF rdPos >= 0 THEN rdSeen \cup {b} ELSE rdSeen

\* the history kept for a save that has written board.dat
SeenImages(b, log) ==
    IF flushPc = "savePlacementData"
    THEN flushSeen \cup {<<BoardBytes(b), Marshal(log)>>}
    ELSE flushSeen

\* the messages of a POST /pixel that is refused: by BindJSON, or by one of the
\* range checks for some body
Refusals ==
    {"malformed body"}
        \cup ({PlaceError(clientPlace) : clientPlace \in ClientPixel} \ {""})

\* POST /pixel refused: the handler answers and returns without a step on board
\* or placementData
PlaceRefuse(message) ==
    /\ proc = "running"
    /\ \E h \in Handlers : pc[h] = "idle"
    /\ message \in Refusals
    /\ resp' = badRequest(message)
    /\ UNCHANGED <<saved, lastCall, globals, files, proc, posting, saving, reading>>

\* POST /pixel with a body that passes the range checks, up to the store into
\* board of line 130
PlaceBegin(h, clientPlace) ==
    /\ proc = "running"
    /\ pc[h] = "idle"
    /\ PlaceError(clientPlace) = ""
    /\ Len(returned) + Cardinality(InFlight) < MaxPlace
    /\ board' = WriteBoard(board, clientPlace)
    /\ pc' = [pc EXCEPT ![h] = "written"]
    /\ frame' = [frame EXCEPT ![h].clientPlace = clientPlace]
    /\ rdSeen' = SeenBoards(board')
    /\ flushSeen' = SeenImages(board', placementData)
    /\ UNCHANGED <<saved, lastCall, placementData, files, proc, resp, returned, flushPc, rdPos, rdOut>>

\* lines 131-132: the clock is read, then append reads the slice placementData
PlaceRead(h, now) ==
    /\ proc = "running"
    /\ pc[h] = "written"
    /\ pc' = [pc EXCEPT ![h] = "appending"]
    /\ frame' = [frame EXCEPT ![h].now = now, ![h].slice = placementData]
    /\ UNCHANGED <<saved, lastCall, globals, files, proc, resp, returned, saving, reading>>

\* line 132, the assignment: the slice grown from the one read is stored into
\* placementData; lines 138: the answer
PlaceStore(h) ==
    /\ proc = "running"
    /\ pc[h] = "appending"
    /\ placementData' =
           AppendPlacement(frame[h].slice, frame[h].clientPlace, frame[h].now)
    /\ resp' = Status(200)
    /\ returned' = Append(returned, frame[h].clientPlace)
    /\ pc' = [pc EXCEPT ![h] = "idle"]
    /\ frame' = [frame EXCEPT ![h] = NoFrame]
    /\ flushSeen' = SeenImages(board, placementData')
    /\ UNCHANGED <<saved, lastCall, board, files, proc, flushPc, reading>>

\* case <-saveTicker.C
SaveTick ==
    /\ proc = "running"
    /\ flushPc = "wait"
    /\ flushPc' = "saveCanvas"
    /\ UNCHANGED <<saved, lastCall, globals, files, proc, resp, posting, flushSeen, reading>>

\* saveCanvas("storage/board.dat"), os.WriteFile succeeding
saveCanvas ==
    /\ proc = "running"
    /\ flushPc = "saveCanvas"
    /\ fileBoard' = BoardFile(BoardBytes(board))
    /\ flushPc' = "savePlacementData"
    /\ flushSeen' = {<<BoardBytes(board), Marshal(placementData)>>}
    /\ saved' = [saved EXCEPT !.board = <<board>>]
    /\ UNCHANGED <<lastCall, globals, fileData, proc, resp, posting, reading>>

\* saveCanvas, os.WriteFile failing: log.Fatalln ends the process
saveCanvasFatal(left) ==
    /\ proc = "running"
    /\ flushPc = "saveCanvas"
    /\ left \in FailedBoardWrites(fileBoard, BoardBytes(board))
    /\ fileBoard' = left
    /\ proc' = "exited"
    /\ UNCHANGED <<saved, lastCall, globals, fileData, resp, posting, saving, reading>>

\* savePlacementData("storage/data.json"), os.WriteFile succeeding; the loop
\* goes back to the ticker
savePlacementData ==
    /\ proc = "running"
    /\ flushPc = "savePlacementData"
    /\ fileData' = DataFile(Marshal(placementData))
    /\ flushPc' = "wait"
    /\ flushSeen' = {}
    /\ saved' = [saved EXCEPT
                     !.placementData = <<placementData>>,
                     !.flush = <<[board |-> saved.board[1],
                                  placementData |-> placementData]>>]
    /\ UNCHANGED <<lastCall, globals, fileBoard, proc, resp, posting, reading>>

\* savePlacementData, os.WriteFile failing: log.Fatalln ends the process
savePlacementDataFatal(left) ==
    /\ proc = "running"
    /\ flushPc = "savePlacementData"
    /\ left \in FailedDataWrites(fileData)
    /\ fileData' = left
    /\ proc' = "exited"
    /\ UNCHANGED <<saved, lastCall, globals, fileBoard, resp, posting, saving, reading>>

\* GET /board is called
BoardBegin ==
    /\ proc = "running"
    /\ rdPos = -1
    /\ rdPos' = 0
    /\ rdOut' = <<>>
    /\ rdSeen' = {board}
    /\ UNCHANGED <<saved, lastCall, globals, files, proc, resp, posting, saving>>

\* c.Data hands the slice board itself to the writer, which copies it out
\* while the other goroutines run: one byte of it
BoardCopy ==
    /\ proc = "running"
    /\ rdPos \in DOMAIN board
    /\ rdOut' = Append(rdOut, board[rdPos])
    /\ rdPos' = rdPos + 1
    /\ UNCHANGED <<saved, lastCall, globals, files, proc, resp, posting, saving, rdSeen>>

\* the whole slice is copied out: rdOut is the body of the 200 response, and
\* the handler returns
BoardEnd ==
    /\ proc = "running"
    /\ rdPos = Cardinality(DOMAIN board)
    /\ rdPos' = -1
    /\ rdOut' = <<>>
    /\ rdSeen' = {}
    /\ UNCHANGED <<saved, lastCall, globals, files, proc, resp, posting, saving>>

\* the POST /pixel handlers
NextPlace ==
    \/ \E message \in Refusals : PlaceRefuse(message)
    \/ \E h \in Handlers :
           \E clientPlace \in {c \in ClientPixel : PlaceError(c) = ""} :
               PlaceBegin(h, clientPlace)
    \/ \E h \in Handlers, now \in Times : PlaceRead(h, now)
    \/ \E h \in Handlers : PlaceStore(h)

SpecPlace == Init /\ [][NextPlace]_vars

\* the POST /pixel handlers and the save goroutine
NextSave ==
    \/ NextPlace
    \/ SaveTick
    \/ saveCanvas
    \/ \E left \in FailedBoardWrites(fileBoard, BoardBytes(board)) : saveCanvasFatal(left)
    \/ savePlacementData
    \/ \E left \in FailedDataWrites(fileData) : savePlacementDataFatal(left)

SpecSave == Init /\ [][NextSave]_vars

\* the POST /pixel handlers and a GET /board
NextBoard ==
    \/ NextPlace
    \/ BoardBegin
    \/ BoardCopy
    \/ BoardEnd

SpecBoard == Init /\ [][NextBoard]_vars

(***************************************************************************)
(* The process from its start: main loads both files, then serves, while   *)
(* the save goroutine runs; the process can end at any moment and be       *)
(* started again on the files it left.                                     *)
(***************************************************************************)
\* the byte value of a board.dat found at the first start: neither the zero of
\* make nor the default color
FileBytes == {255}

\* the board.dat found at the first start: none, or one of any length up to
\* one byte more than expectedSize
BoardFiles ==
    {NoFile} \cup
        {BoardFile(bytes) :
            bytes \in UNION {[1..n -> FileBytes] : n \in 0..(expectedSize + 1)}}

\* the data.json found at the first start: none, text that is no JSON value,
\* an empty array, or an array of one placement
DataFiles ==
    {NoData, BrokenData, DataFile(<<>>),
     DataFile(Marshal(<<ServerPixel([X |-> 0, Y |-> 0, Color |-> 0], 0)>>))}

\* the bodies posted while the process is followed over its starts: a palette
\* color at the first cell, another at the last cell, an x and a y past the
\* grid
LifePixels ==
    {[X |-> 0, Y |-> 0, Color |-> 0],
     [X |-> width - 1, Y |-> height - 1, Color |-> Len(palette) - 1],
     [X |-> width, Y |-> 0, Color |-> 0],
     [X |-> 0, Y |-> height, Color |-> 0]}

\* main is about to call loadCanvas (line 60) on some content of storage/
InitLife ==
    /\ board = NilBoard
    /\ placementData = <<>>
    /\ fileBoard \in BoardFiles
    /\ fileData \in DataFiles
    /\ saved = IF fileBoard = NoFile /\ fileData = NoData
               THEN NothingSaved
               ELSE [NothingSaved EXCEPT !.flush = <<>>]
    /\ proc = "loadCanvas"
    /\ resp = Status(0)
    /\ call = NoCall
    /\ before = [board |-> board, placementData |-> placementData]
    /\ pc = [h \in Handlers |-> "idle"]
    /\ frame = [h \in Handlers |-> NoFrame]
    /\ returned = <<>>
    /\ flushPc = "wait"
    /\ flushSeen = {}
    /\ rdPos = -1
    /\ rdOut = <<>>
    /\ rdSeen = {}

\* main, line 60: loadCanvas("storage/board.dat", expectedSize, defaultColorIndex)
loadCanvas(ioErr) ==
    /\ proc = "loadCanvas"
    /\ LET loaded == LoadCanvas(fileBoard, expectedSize, defaultColorIndex, ioErr)
       IN  /\ board' = loaded.board
           /\ proc' = IF loaded.fatal THEN "exited" ELSE "loadPlacementData"
    /\ call' = [Call("loadCanvas", 0, 0, 0, 0) EXCEPT !.ioErr = ioErr]
    /\ before' = [board |-> board, placementData |-> placementData]
    /\ UNCHANGED <<placementData, files, saved, resp, posting, saving, reading>>

\* main, line 61: loadPlacementData("storage/data.json"); after it the save
\* goroutine is started and the router runs
loadPlacementData(ioErr) ==
    /\ proc = "loadPlacementData"
    /\ LET loaded == LoadPlacementData(fileData, ioErr)
       IN  /\ placementData' = loaded.placementData
           /\ proc' = IF loaded.fatal THEN "exited" ELSE "running"
    /\ call' = [Call("loadPlacementData", 0, 0, 0, 0) EXCEPT !.ioErr = ioErr]
    /\ before' = [board |-> board, placementData |-> placementData]
    /\ UNCHANGED <<board, files, saved, resp, posting, saving, reading>>

\* the process ends (it is killed, the machine stops, or it has exited) and
\* main is started again: the globals are gone, the files stay
Restart ==
    /\ proc # "loadCanvas"
    /\ proc' = "loadCanvas"
    /\ board' = NilBoard
    /\ placementData' = <<>>
    /\ resp' = Status(0)
    /\ call' = NoCall
    /\ before' = [board |-> NilBoard, placementData |-> <<>>]
    /\ pc' = [h \in Handlers |-> "idle"]
    /\ frame' = [h \in Handlers |-> NoFrame]
    /\ returned' = <<>>
    /\ flushPc' = "wait"
    /\ flushSeen' = {}
    /\ rdPos' = -1
    /\ rdOut' = <<>>
    /\ rdSeen' = {}
    /\ UNCHANGED <<files, saved>>

NextLife ==
    \/ \E ioErr \in IoErrs : loadCanvas(ioErr)
    \/ \E ioErr \in IoErrs : loadPlacementData(ioErr)
    \/ \E clientPlace \in LifePixels, now \in Times : PostPixel(clientPlace, now)
    \/ SaveTick
    \/ saveCanvas
    \/ \E left \in FailedBoardWrites(fileBoard, BoardBytes(board)) : saveCanvasFatal(left)
    \/ savePlacementData
    \/ \E left \in FailedDataWrites(fileData) : savePlacementDataFatal(left)
    \/ Restart

SpecLife == InitLife /\ [][NextLife]_vars

(***************************************************************************)
(* Claims about one handler running alone (Spec).                          *)
(***************************************************************************)
InPalette(color) == color \in 0..(Len(palette) - 1)

InGrid(x, y) == x \in 0..(width - 1) /\ y \in 0..(height - 1)

\* the greatest position (from 1) of an entry of s at (x, y); 0 when none
LastPosition(s, x, y) ==
    LET at == {i \in 1..Len(s) : s[i].X = x /\ s[i].Y = y}
    IN  IF at = {} THEN 0 ELSE CHOOSE i \in at : \A j \in at : j <= i

\* C1: after POST /pixel calls that succeeded with palette colors, a GET /pixel
\* for a coordinate of the log answers the placement at that coordinate with
\* the greatest position in the log, the last one appended, whatever the
\* timestamps are.
C1_FindLatestReturnsLast ==
    (/\ call.route = "GET /pixel"
     /\ \A i \in 1..Len(placementData) : InPalette(placementData[i].Color)
     /\ LastPosition(placementData, call.X, call.Y) > 0)
    => resp = JSON(200, MarshalPixel(
                  placementData[LastPosition(placementData, call.X, call.Y)]))

\* C2: a POST /pixel inside the grid with a color of the palette, run alone,
\* answers 200, leaves the color in cell y*width+x and the placement
\* {x, y, color, now} as the last entry of the log.
C2_PlaceWritesCellAndAppends ==
    (/\ call.route = "POST /pixel"
     /\ InGrid(call.X, call.Y)
     /\ InPalette(call.Color))
    => /\ resp = Status(200)
       /\ DOMAIN board = DOMAIN before.board
       /\ board[call.Y * width + call.X] = call.Color
       /\ \A i \in DOMAIN board :
              i # call.Y * width + call.X => board[i] = before.board[i]
       /\ Len(placementData) = Len(before.placementData) + 1
       /\ SubSeq(placementData, 1, Len(before.placementData)) = before.placementData
       /\ placementData[Len(placementData)] =
              [X |-> call.X, Y |-> call.Y, Color |-> call.Color, Time |-> call.now]

\* a palette color other than the default was placed at the last cell, on top
\* of an earlier placement, at an earlier time than that one
C2_Witness ==
    /\ call = Call("POST /pixel", width - 1, height - 1, 0, 0)
    /\ Len(placementData) = 2
    /\ placementData[1].Time = 1
    /\ board[expectedSize - 1] = 0
    /\ before.board[expectedSize - 1] = defaultColorIndex

\* C3: a POST /pixel whose color is outside [0, paletteSize) answers the
\* color error and changes neither the grid nor the log (stated for the
\* requests inside the grid, which no other check can refuse).
C3_InvalidColorRejected ==
    (/\ call.route = "POST /pixel"
     /\ ~InPalette(call.Color)
     /\ InGrid(call.X, call.Y))
    => /\ resp = badRequest("color out of range")
       /\ board = before.board
       /\ placementData = before.placementData

\* C4: a POST /pixel with x outside [0, width) or y outside [0, height) is
\* answered with a 400 validation error (the coordinate error whenever the
\* color passes its own check, which comes first) and changes neither the grid
\* nor the log.
C4_OutOfBoundsRejected ==
    (call.route = "POST /pixel" /\ ~InGrid(call.X, call.Y))
    => /\ resp.status = 400
       /\ resp.message \in {"color out of range", "x-coordinate out of range",
                            "y-coordinate out of range"}
       /\ call.Color \in 0..255 =>
              resp.message = IF call.X \in 0..(width - 1)
                             THEN "y-coordinate out of range"
                             ELSE "x-coordinate out of range"
       /\ resp.pixel = <<>> /\ resp.data = <<>>
       /\ board = before.board
       /\ placementData = before.placementData

\* a request with x = width and a palette color was refused after the grid and
\* the log had got content
C4_Witness ==
    /\ call = Call("POST /pixel", width, 0, Len(palette) - 1, 0)
    /\ resp = badRequest("x-coordinate out of range")
    /\ placementData # <<>>
    /\ \E i \in DOMAIN board : board[i] # defaultColorIndex

\* C9: a GET /pixel for a coordinate without a log entry ends as NotFound and
\* nothing else: status 404, no placement, no fault, no state changed.
C9_MissIsNotFound ==
    (call.route = "GET /pixel" /\ LastPosition(placementData, call.X, call.Y) = 0)
    => /\ resp = Status(404)
       /\ board = before.board
       /\ placementData = before.placementData

\* C20: POST /pixel checks the color range, then the x range, then the y
\* range, and answers the error of the first check that fails: a color the
\* color check refuses gives the color error whatever x and y are, a color it
\* lets through with an x outside the grid gives the x error whatever y is,
\* and the y error is left for the requests whose color and x pass.
C20_ValidationOrder ==
    call.route = "POST /pixel"
    => /\ call.Color \notin 0..255 => resp = badRequest("color out of range")
       /\ (call.Color \in 0..255 /\ call.X \notin 0..(width - 1))
          => resp = badRequest("x-coordinate out of range")
       /\ (call.Color \in 0..255 /\ call.X \in 0..(width - 1)
             /\ call.Y \notin 0..(height - 1))
          => resp = badRequest("y-coordinate out of range")

\* a request failing all three checks got the color error
C20_Witness ==
    /\ call = Call("POST /pixel", width, height, 256, 0)
    /\ resp = badRequest("color out of range")
    /\ placementData # <<>>

\* C18: every cell of the grid holds a color index of the palette, so that
\* convertedPalette[board[y*width+x]] of GET /image is always inside the
\* palette.
C18_CellsInPalette ==
    \A i \in DOMAIN board : InPalette(board[i])

(***************************************************************************)
(* Claims about goroutines running at the same time.                       *)
(***************************************************************************)
\* C5: the store into board and the append of one POST /pixel are atomic for
\* every other goroutine: while a handler stands between the two, no read of
\* board or placementData by the save goroutine can take place.
C5_PlaceAtomicForReaders ==
    \A h \in Handlers :
        pc[h] \in {"written", "appending"} =>
            ~(ENABLED saveCanvas \/ ENABLED savePlacementData)

\* C6: once every POST /pixel has returned, and all that answered 200 were at
\* the same coordinate, the log holds one entry per such call and the cell
\* holds the color of one of them.
C6_ConcurrentPlacesAllLogged ==
    (/\ InFlight = {}
     /\ returned # <<>>
     /\ \A i \in 1..Len(returned) :
            returned[i].X = returned[1].X /\ returned[i].Y = returned[1].Y)
    => /\ Len(placementData) = Len(returned)
       /\ board[returned[1].Y * width + returned[1].X] \in
              {returned[i].Color % 256 : i \in 1..Len(returned)}

\* C7: the two files one flush leaves are the grid and the log of one and the
\* same instant between its two reads.
C7_FlushIsSnapshot ==
    [][savePlacementData => <<fileBoard'.bytes, fileData'.items>> \in flushSeen]_vars

\* C8: a failed write of either file during a flush leaves the process running
\* with grid and log as they were, the save goroutine waiting for the next tick.
C8_SaveFailureSurvived ==
    [][((\E left \in FailedBoardWrites(fileBoard, BoardBytes(board)) :
             saveCanvasFatal(left))
        \/ (\E left \in FailedDataWrites(fileData) : savePlacementDataFatal(left)))
       => /\ proc' = "running"
          /\ flushPc' = "wait"
          /\ UNCHANGED <<board, placementData>>]_vars

\* C10: the bytes a GET /board delivers are the grid of one single instant
\* between the call and its return.
C10_ReadAllIsSnapshot ==
    rdPos = Cardinality(DOMAIN board) => rdOut \in {BoardBytes(b) : b \in rdSeen}

\* the grid that replaying a log onto a grid of the default color leaves: each
\* cell holds the color of the last entry at it
ReplayedBoard(log) ==
    [i \in 0..(expectedSize - 1) |->
        LET at == {k \in 1..Len(log) : log[k].Y * width + log[k].X = i}
        IN  IF at = {} THEN defaultColorIndex
            ELSE log[CHOOSE k \in at : \A j \in at : j <= k].Color]

\* C15: whenever no POST /pixel is in progress, the grid is the replay of the
\* log, in log order, onto a grid of the default color.
C15_GridIsReplayOfLog ==
    InFlight = {} => board = ReplayedBoard(placementData)

\* C17: the log is append-only: in every step the log before is a prefix of
\* the log after, which is longer by one entry at most; no entry is removed,
\* moved or changed.
C17_LogAppendOnly ==
    [][/\ Len(placementData) <= Len(placementData')
       /\ Len(placementData') <= Len(placementData) + 1
       /\ \A i \in 1..Len(placementData) : placementData'[i] = placementData[i]]_vars

(***************************************************************************)
(* Claims about the start of the process and its files (SpecLife).         *)
(***************************************************************************)
\* C11: a start that finds no board.dat leaves a board of expectedSize cells,
\* each the default color, and goes on to load the log; a start that finds no
\* data.json leaves an empty log and goes on to serve.
C11_MissingFilesBootstrap ==
    /\ (call.route = "loadCanvas" /\ ~fileBoard.exists)
       => /\ proc = "loadPlacementData"
          /\ DOMAIN board = 0..(expectedSize - 1)
          /\ \A i \in DOMAIN board : board[i] = defaultColorIndex
    /\ (call.route = "loadPlacementData" /\ flushPc = "wait" /\ ~fileData.exists)
       => /\ proc = "running"
          /\ placementData = <<>>
          /\ board = before.board

\* the process has started on a storage directory without either file
C11_Witness ==
    /\ call.route = "loadPlacementData"
    /\ ~fileBoard.exists /\ ~fileData.exists
    /\ proc = "running"
    /\ placementData = <<>>
    /\ board = [i \in 0..(expectedSize - 1) |-> defaultColorIndex]

\* C12: a start that finds a board.dat whose size is not width*height ends in
\* the fatal error of loadCanvas: the process exits without having answered a
\* request, and no process is past loadCanvas while such a file is there.
C12_SizeMismatchFatal ==
    (fileBoard.exists /\ Len(fileBoard.bytes) # width * height)
    => /\ proc \notin {"loadPlacementData", "running"}
       /\ call.route = "loadCanvas" => (proc = "exited" /\ resp = Status(0))

\* the start found a board.dat one byte longer than the grid, and exited
C12_Witness ==
    /\ call.route = "loadCanvas"
    /\ fileBoard.exists
    /\ Len(fileBoard.bytes) = width * height + 1
    /\ proc = "exited"

\* C13: a board.dat that saveCanvas wrote is loaded by the next start, with
\* the same width*height, without error and as the very bytes the board had
\* when it was saved.
C13_GridRoundTrip ==
    (/\ call.route = "loadCanvas"
     /\ call.ioErr = ""
     /\ saved.board # <<>>
     /\ fileBoard = BoardFile(BoardBytes(saved.board[1])))
    => /\ proc = "loadPlacementData"
       /\ board = saved.board[1]

\* a board with two different cells, one of them not the default, was saved
\* and has been loaded by the next start
C13_Witness ==
    /\ call.route = "loadCanvas"
    /\ call.ioErr = ""
    /\ saved.board = <<board>>
    /\ fileBoard = BoardFile(BoardBytes(saved.board[1]))
    /\ proc = "loadPlacementData"
    /\ board[0] # board[expectedSize - 1]
    /\ board[0] # defaultColorIndex

\* C14: a data.json that savePlacementData wrote is loaded by the next start
\* as the log that was saved: same length, same order, same x, y, color and
\* time in every entry; the empty log too.
C14_LogRoundTrip ==
    (/\ call.route = "loadPlacementData"
     /\ call.ioErr = ""
     /\ flushPc = "wait"
     /\ saved.placementData # <<>>
     /\ fileData = DataFile(Marshal(saved.placementData[1])))
    => /\ proc = "running"
       /\ placementData = saved.placementData[1]

\* a log of two entries with different coordinates, colors and times was
\* saved and has been loaded by the next start
C14_Witness ==
    /\ call.route = "loadPlacementData"
    /\ call.ioErr = ""
    /\ flushPc = "wait"
    /\ saved.placementData = <<placementData>>
    /\ fileData = DataFile(Marshal(placementData))
    /\ proc = "running"
    /\ Len(placementData) = 2
    /\ placementData[1].X # placementData[2].X
    /\ placementData[1].Color # placementData[2].Color
    /\ placementData[1].Time > placementData[2].Time

\* the empty log was saved and has been loaded by the next start
C14_WitnessEmpty ==
    /\ call.route = "loadPlacementData"
    /\ call.ioErr = ""
    /\ flushPc = "wait"
    /\ saved.placementData = <<placementData>>
    /\ fileData = DataFile(<<>>)
    /\ proc = "running"
    /\ placementData = <<>>

\* C16: the grid and the log a start has loaded are those of one and the same
\* completed flush, the last one, or both the initial defaults when no flush
\* completed on storage that had no file: whenever the process ended.
C16_CrashConsistent ==
    (/\ call.route = "loadPlacementData"
     /\ proc = "running"
     /\ saved.flush # <<>>)
    => [board |-> board, placementData |-> placementData] = saved.flush[1]

\* C19: while main is past loadCanvas the grid has exactly width*height
\* cells, whatever was loaded, placed or saved, and every POST /pixel that is
\* accepted stores at an index y*width+x inside the grid.
C19_GridLengthFixed ==
    /\ proc \in {"loadPlacementData", "running"}
       => DOMAIN board = 0..(width * height - 1)
    /\ (call.route = "POST /pixel" /\ resp = Status(200))
       => /\ call.Y * width + call.X \in 0..(width * height - 1)
          /\ DOMAIN board = DOMAIN before.board

\* on a board loaded from a file, a placement at the last cell was accepted
C19_Witness ==
    /\ proc = "running"
    /\ call.route = "POST /pixel"
    /\ resp = Status(200)
    /\ call.Y * width + call.X = width * height - 1
    /\ board[0] \in FileBytes
    /\ saved.board = <<>>

====
